---- MODULE Spec2Model ----
(***************************************************************************)
(* Model of app.py: the use-case registry, the row classifier              *)
(* handle_use_case_row, the narrative call generate_llm_solution and the   *)
(* POST /run-use-cases handler run_use_cases.                              *)
(*                                                                         *)
(* Python values that the code handles polymorphically (the sent/received  *)
(* cells of a pandas row, the text of a generator response, the solution   *)
(* of a result) are tagged records; text cells (use_case, source, target,  *)
(* metadata) are strings, and the integers of a result are integers.       *)
(* int() reads a str by its code points: a str cell of sent or received is *)
(* a PyUStr, the sequence of its code points; PyStr holds text that the    *)
(* code never parses.                                                      *)
(***************************************************************************)
EXTENDS Integers, Sequences, FiniteSets, TLC

VARIABLES pc, columns, rows, results, calls, response

vars == <<pc, columns, rows, results, calls, response>>

(* ------------------------------ bounds --------------------------------- *)

\* Longest uploaded dataset, in rows.
MaxRows == 2

\* Largest integer quantity in a sent or received cell.
MaxQty == 1

(* --------------------------- Python values ----------------------------- *)

PyInt(n) == [t |-> "int", v |-> n]

\* A float with the value num / den, den > 0.
PyFloat(num, den) == [t |-> "float", num |-> num, den |-> den]

\* The missing-value marker of pandas (float NaN).
NaN == [t |-> "nan"]

\* A str that the code passes on as it is.
PyStr(s) == [t |-> "str", s |-> s]

\* A str that int() reads, given by its code points.
PyUStr(cp) == [t |-> "ustr", cp |-> cp]

None == [t |-> "none"]

\* The code points int() takes for a zero: DIGIT ZERO and the zero of every
\* other decimal digit block (Unicode 14, category Nd); the nine code points
\* after a zero are its digits one to nine.
DecimalZeros ==
    { 48, 1632, 1776, 1984, 2406, 2534, 2662, 2790, 2918, 3046,
      3174, 3302, 3430, 3558, 3664, 3792, 3872, 4160, 4240, 6112,
      6160, 6470, 6608, 6784, 6800, 6992, 7088, 7232, 7248, 42528,
      43216, 43264, 43472, 43504, 43600, 44016, 65296, 66720, 68912, 69734,
      69872, 69942, 70096, 70384, 70736, 70864, 71248, 71360, 71472, 71904,
      72016, 72784, 73040, 73120, 92768, 92864, 93008, 120782, 120792, 120802,
      120812, 120822, 123200, 123632, 125264, 130032 }

IsDigit(c) == \E z \in DecimalZeros : z <= c /\ c <= z + 9

DigitValue(c) == c - (CHOOSE z \in DecimalZeros : z <= c /\ c <= z + 9)

\* The code points int() skips around the literal: the ASCII whitespace
\* \t \n \v \f \r and space, and the Unicode spaces above 127.
SpaceCodePoints ==
    { 9, 10, 11, 12, 13, 32, 133, 160, 5760, 8192,
      8193, 8194, 8195, 8196, 8197, 8198, 8199, 8200, 8201, 8202,
      8232, 8233, 8239, 8287, 12288 }

IsSpace(c) == c \in SpaceCodePoints

\* s, a sequence of code points, without its leading whitespace.
LStrip(s) ==
    IF \A i \in 1..Len(s) : IsSpace(s[i]) THEN <<>>
    ELSE SubSeq(s,
                CHOOSE i \in 1..Len(s) :
                    ~IsSpace(s[i]) /\ \A j \in 1..(i - 1) : IsSpace(s[j]),
                Len(s))

\* s without its trailing whitespace.
RStrip(s) ==
    IF \A i \in 1..Len(s) : IsSpace(s[i]) THEN <<>>
    ELSE SubSeq(s,
                1,
                CHOOSE i \in 1..Len(s) :
                    ~IsSpace(s[i]) /\ \A j \in (i + 1)..Len(s) : IsSpace(s[j]))

\* ord("_"), ord("+") and ord("-").
Underscore == 95

PlusSign == 43

MinusSign == 45

\* The most digits int() converts from a str (sys.get_int_max_str_digits()
\* as CPython 3.11 sets it); a longer literal raises ValueError.
MaxStrDigits == 4300

\* The digits of an integer literal that int() converts: decimal digits,
\* single underscores allowed between two digits, no more than MaxStrDigits
\* digits.
IsLiteralBody(s) ==
    /\ Len(s) > 0
    /\ IsDigit(s[1])
    /\ IsDigit(s[Len(s)])
    /\ \A i \in 1..Len(s) :
          \/ IsDigit(s[i])
          \/ /\ s[i] = Underscore
             /\ s[i + 1] # Underscore
    /\ Cardinality({i \in 1..Len(s) : s[i] # Underscore}) <= MaxStrDigits

\* The number that the decimal digit values d spell, most significant first.
RECURSIVE DecimalValue(_, _)
DecimalValue(d, acc) ==
    IF Len(d) = 0 THEN acc ELSE DecimalValue(Tail(d), 10 * acc + d[1])

\* The number that the digit values d spell, read from the first that is
\* not a zero.
ValueOfDigits(d) ==
    IF \A i \in 1..Len(d) : d[i] = 0 THEN 0
    ELSE DecimalValue(SubSeq(d,
                             CHOOSE i \in 1..Len(d) :
                                 d[i] # 0 /\ \A j \in 1..(i - 1) : d[j] = 0,
                             Len(d)),
                      0)

DigitValues(digits) == [i \in 1..Len(digits) |-> DigitValue(digits[i])]

\* The value of a literal body: its digits without the underscores.
LiteralValue(s) == ValueOfDigits(DigitValues(SelectSeq(s, IsDigit)))

Signed(negative, n) == IF negative THEN 0 - n ELSE n

\* The literal after the whitespace and the sign.
int_of_body(negative, body) ==
    IF IsLiteralBody(body)
    THEN [ok |-> TRUE, v |-> Signed(negative, LiteralValue(body))]
    ELSE [ok |-> FALSE, v |-> 0]

\* The literal after the whitespace: an optional sign, then the body.
int_of_stripped(stripped) ==
    IF Len(stripped) > 0 /\ stripped[1] \in {PlusSign, MinusSign}
    THEN int_of_body(stripped[1] = MinusSign, Tail(stripped))
    ELSE int_of_body(FALSE, stripped)

\* int(s) of a str with the code points s: [ok |-> TRUE, v |-> n], or
\* ok = FALSE for ValueError.
int_of_str(s) == int_of_stripped(RStrip(LStrip(s)))

\* int(x) of a float: truncation toward zero.
int_of_float(num, den) ==
    IF num >= 0 THEN num \div den ELSE 0 - ((0 - num) \div den)

\* The builtin int(x) of an int, a float, NaN, a str given by its code
\* points, or None: [ok |-> TRUE, v |-> n], or ok = FALSE when int raises
\* (ValueError for NaN and for text that is no integer literal, TypeError
\* for None).
int(x) ==
    CASE x.t = "int" -> [ok |-> TRUE, v |-> x.v]
      [] x.t = "float" -> [ok |-> TRUE, v |-> int_of_float(x.num, x.den)]
      [] x.t = "ustr" -> int_of_str(x.cp)
      [] x.t = "nan" -> [ok |-> FALSE, v |-> 0]
      [] x.t = "none" -> [ok |-> FALSE, v |-> 0]

\* row.get(key, default) of a pandas row.
Get(row, key, default) == IF key \in DOMAIN row THEN row[key] ELSE default

\* dict.get(key, default) of a dict.
DictGet(dict, key, default) == IF key \in DOMAIN dict THEN dict[key] ELSE default

(* ------------------------------ registry ------------------------------- *)

USE_CASES ==
    { "CSV Upload Validation",
      "Duplicate Asset Detection",
      "Pickup Scheduling Confirmation",
      "Donor Asset Data Validation",
      "Donation Commitment vs Actual Reconciliation",
      "Data Privacy Compliance",
      "Donation Tax Certificate Issuance",
      "Asset Return or Cancellation Request",
      "Receiving Assets from Donor",
      "Partner Asset Classification",
      "Rescheduling & Location Mismatch",
      "Partner to Beneficiary Handoff",
      "Multiple Pickups in Phases",
      "Inventory Overstock Management",
      "Partner Skill/Capability Mismatch",
      "Partner Non-compliance or SLA Breach",
      "Receipt Confirmation",
      "Device Condition Feedback",
      "Feedback on Usability",
      "Multiple Deliveries Tracking",
      "Unauthorized Asset Usage",
      "Beneficiary Accessibility Issues",
      "Lost or Stolen Asset Report",
      "Donor Budget vs Execution Reconciliation",
      "Expense Tracking vs Asset Flow",
      "Audit Trail & Compliance Reporting",
      "Budget Variance Forecasting",
      "Regulatory Compliance Check",
      "Multi-project Resource Allocation" }

USE_CASE_SOLUTIONS ==
    ("CSV Upload Validation" :>
        "Simple binary validation. System accepts or rejects the upload. No chatbot needed.") @@
    ("Duplicate Asset Detection" :>
        "AI chatbot detects duplicates, alerts donor instantly, reduces manual cleanup.") @@
    ("Pickup Scheduling Confirmation" :>
        "Bot reconciles scheduled assets vs CSV upload, alerts mismatch, prompts correction.") @@
    ("Donor Asset Data Validation" :>
        "Bot can query donor to fill missing data or correct errors interactively.") @@
    ("Donation Commitment vs Actual Reconciliation" :>
        "Bot helps compare commitment vs upload and pickup, alerts donor or admin for mismatches.") @@
    ("Data Privacy Compliance" :>
        "Bot verifies consent flags, requests missing consents interactively to ensure compliance.") @@
    ("Donation Tax Certificate Issuance" :>
        "Bot auto-generates certificates, notifies donors, and tracks issuance status.") @@
    ("Asset Return or Cancellation Request" :>
        "Bot manages cancellation workflows, approves or refers to admin, updates records.") @@
    ("Receiving Assets from Donor" :>
        "Chatbot reconciles expected vs received assets and flags discrepancies for approval.") @@
    ("Partner Asset Classification" :>
        "AI-powered image recognition bot suggests correct classification and reduces manual errors.") @@
    ("Rescheduling & Location Mismatch" :>
        "Bot tracks schedules, alerts all parties, suggests new timings, and confirms.") @@
    ("Partner to Beneficiary Handoff" :>
        "Bot records asset condition, confirms quantities, and alerts admin on discrepancies.") @@
    ("Multiple Pickups in Phases" :>
        "Chatbot tracks phased pickups, aggregates data, and sends reminders for incomplete pickups.") @@
    ("Inventory Overstock Management" :>
        "Bot detects overcapacity and suggests redistribution or pickup rescheduling.") @@
    ("Partner Skill/Capability Mismatch" :>
        "Bot flags assets needing specialized handling and routes them to expert partners.") @@
    ("Partner Non-compliance or SLA Breach" :>
        "Bot monitors SLA data, sends warnings, and escalates persistent issues.") @@
    ("Receipt Confirmation" :>
        "Bot prompts for receipt confirmation and sends reminders until acknowledged.") @@
    ("Device Condition Feedback" :>
        "Bot collects condition reports with photos and triggers alerts for replacements.") @@
    ("Feedback on Usability" :>
        "Bot sends automated surveys and collects structured usability feedback.") @@
    ("Multiple Deliveries Tracking" :>
        "Bot aggregates deliveries and shows clear history and status.") @@
    ("Unauthorized Asset Usage" :>
        "Bot monitors usage logs, flags anomalies, and alerts admin for investigation.") @@
    ("Beneficiary Accessibility Issues" :>
        "Bot collects accessibility issues via feedback and coordinates logistics resolution.") @@
    ("Lost or Stolen Asset Report" :>
        "Bot logs reports, initiates claims workflows, and notifies donor and admin.") @@
    ("Donor Budget vs Execution Reconciliation" :>
        "Bot reconciles donation value against promised budget and flags shortfalls or overruns.") @@
    ("Expense Tracking vs Asset Flow" :>
        "Bot analyzes financial data against asset logs and alerts admins of anomalies.") @@
    ("Audit Trail & Compliance Reporting" :>
        "Bot ensures all handoffs are logged and auto-generates audit-ready summaries.") @@
    ("Budget Variance Forecasting" :>
        "Bot analyzes historical trends and predicts budget variances for review.") @@
    ("Regulatory Compliance Check" :>
        "Bot tracks deadlines, verifies document completeness, and escalates non-compliance.") @@
    ("Multi-project Resource Allocation" :>
        "Bot recommends resource redistribution based on priority and availability.")

RECONCILIATION_CASES ==
    { "Donation Commitment vs Actual Reconciliation",
      "Donor Budget vs Execution Reconciliation",
      "Expense Tracking vs Asset Flow" }

VALIDATION_CASES ==
    { "CSV Upload Validation",
      "Donor Asset Data Validation",
      "Duplicate Asset Detection" }

PROCESS_CASES == (USE_CASES \ RECONCILIATION_CASES) \ VALIDATION_CASES

(* ------------------------- handle_use_case_row ------------------------- *)

\* The row returned for a use_case that is not in USE_CASES.
rejected_row_medium(use_case) ==
    [use_case |-> use_case, status |-> "INVALID_USE_CASE", severity |-> "MEDIUM"]

rejected_row(use_case) ==
    [use_case |-> use_case, status |-> "INVALID_USE_CASE", severity |-> "HIGH"]

\* The quantity rule of the reconciliation use cases.
reconcile_swapped(sent, received) ==
    LET diff == received - sent
    IN  [sent |-> sent, received |-> received, difference |-> diff,
         status |-> IF diff = 0 THEN "MATCH" ELSE "MISMATCH",
         severity |-> IF diff # 0 THEN "HIGH" ELSE "NONE"]

reconcile(sent, received) ==
    LET diff == sent - received
    IN  [sent |-> sent, received |-> received, difference |-> diff,
         status |-> IF diff = 0 THEN "MATCH" ELSE "MISMATCH",
         severity |-> IF diff # 0 THEN "HIGH" ELSE "NONE"]

\* The rule of the registered use cases that are not reconciled.
unreconciled_no_validation(use_case) ==
    [sent |-> 0, received |-> 0, difference |-> 0,
     status |-> "PROCESS_EVENT",
     severity |-> "MEDIUM"]

unreconciled(use_case) ==
    [sent |-> 0, received |-> 0, difference |-> 0,
     status |-> IF use_case \in VALIDATION_CASES
                THEN "VALIDATION_REQUIRED" ELSE "PROCESS_EVENT",
     severity |-> "MEDIUM"]

\* The row returned for a registered use case.
classified_row(row, rule) ==
    [raised |-> FALSE,
     value |-> [use_case |-> row["use_case"],
                source |-> Get(row, "source", ""),
                target |-> Get(row, "target", ""),
                sent |-> rule.sent,
                received |-> rule.received,
                difference |-> rule.difference,
                status |-> rule.status,
                severity |-> rule.severity,
                metadata |-> Get(row, "metadata", "")]]

\* The reconciliation branch, sent and received being what int() gave:
\* raised = TRUE when int() raised on either (the exception leaves the
\* function).
reconciled_row(row, sent, received) ==
    IF ~sent.ok \/ ~received.ok
    THEN [raised |-> TRUE, value |-> <<>>]
    ELSE classified_row(row, reconcile(sent.v, received.v))

\* The classified row, or raised = TRUE when an exception leaves the
\* function.
handle_use_case_row(row) ==
    IF row["use_case"] \notin USE_CASES
    THEN [raised |-> FALSE, value |-> rejected_row(row["use_case"])]
    ELSE IF row["use_case"] \in RECONCILIATION_CASES
    THEN reconciled_row(row,
                        int(Get(row, "sent", PyInt(0))),
                        int(Get(row, "received", PyInt(0))))
    ELSE classified_row(row, unreconciled(row["use_case"]))

(* ------------------------ generate_llm_solution ------------------------ *)

\* What client.models.generate_content does on one call: it returns a
\* response whose text is a str or None, or it raises.
FailureCauses == {"unreachable", "quota", "malformed", "timeout"}

Replies ==
    {[kind |-> "response", text |-> PyStr("Generated guidance for the admin.")],
     [kind |-> "response", text |-> PyStr("")],
     [kind |-> "response", text |-> None]}
    \cup {[kind |-> "raise", cause |-> c] : c \in FailureCauses}

\* The fields of the result that the prompt embeds.
Prompt(result) ==
    [use_case |-> result.use_case,
     source |-> result.source,
     target |-> result.target,
     status |-> result.status]

\* The string returned when the call raises.
fallback_generic(use_case) ==
    "LLM unavailable due to quota or rate limits. Suggested action: "
    \o "Manual review required."

fallback(use_case) ==
    "LLM unavailable due to quota or rate limits. Suggested action: "
    \o DictGet(USE_CASE_SOLUTIONS, use_case, "Manual review required.")

\* One call with its outcome; reply is what the generator does when called.
\* value is the returned solution, calls the requests sent to the generator,
\* raised = TRUE when an exception leaves the function.
generate_llm_solution_quota_only(result, reply) ==
    LET request == [prompt |-> Prompt(result), outcome |-> reply.kind]
    IN  IF reply.kind = "response"
        THEN [raised |-> FALSE, value |-> reply.text, calls |-> <<request>>]
        ELSE IF reply.cause = "quota"
        THEN [raised |-> FALSE,
              value |-> PyStr(fallback(result.use_case)),
              calls |-> <<request>>]
        ELSE [raised |-> TRUE, value |-> None, calls |-> <<request>>]

generate_llm_solution(result, reply) ==
    LET request == [prompt |-> Prompt(result), outcome |-> reply.kind]
    IN  IF reply.kind = "response"
        THEN [raised |-> FALSE, value |-> reply.text, calls |-> <<request>>]
        ELSE [raised |-> FALSE,
              value |-> PyStr(fallback(result.use_case)),
              calls |-> <<request>>]

(* ---------------------------- run_use_cases ---------------------------- *)

\* result with result["solution"] = solution.
WithSolution(result, solution) ==
    [f \in DOMAIN result \cup {"solution"} |->
        IF f = "solution" THEN solution ELSE result[f]]

\* Which branch of the if / elif / else sets the solution.
solution_branch_no_canned(result) ==
    IF result.status = "INVALID_USE_CASE" THEN "rejected" ELSE "generated"

solution_branch(result) ==
    IF result.status = "INVALID_USE_CASE" THEN "rejected"
    ELSE IF result.use_case = "CSV Upload Validation" THEN "canned"
    ELSE "generated"

\* The else branch: the solution is what generate_llm_solution returned.
generated_row(result, generated) ==
    IF generated.raised
    THEN [raised |-> TRUE, value |-> <<>>, calls |-> generated.calls]
    ELSE [raised |-> FALSE,
          value |-> WithSolution(result, generated.value),
          calls |-> generated.calls]

\* The if / elif / else that sets the solution of a classified row.
resolve_result(result, reply) ==
    CASE solution_branch(result) = "rejected" ->
            [raised |-> FALSE,
             value |-> WithSolution(result, PyStr("Rejected: use_case not recognized.")),
             calls |-> <<>>]
      [] solution_branch(result) = "canned" ->
            [raised |-> FALSE,
             value |-> WithSolution(result,
                                    PyStr(USE_CASE_SOLUTIONS["CSV Upload Validation"])),
             calls |-> <<>>]
      [] OTHER -> generated_row(result, generate_llm_solution(result, reply))

resolve_handled(handled, reply) ==
    IF handled.raised
    THEN [raised |-> TRUE, value |-> <<>>, calls |-> <<>>]
    ELSE resolve_result(handled.value, reply)

\* The body of the loop for one row: classify, then set the solution.
\* raised = TRUE when an exception leaves the body.
resolve_row(row, reply) == resolve_handled(handle_use_case_row(row), reply)

(* ------------------------------- inputs -------------------------------- *)

OptionalColumns == {"source", "target", "sent", "received", "metadata"}

\* The column sets of the uploaded files.
ColumnSets ==
    { {"use_case"} \cup OptionalColumns,
      {"use_case", "sent"},
      {"use_case"},
      OptionalColumns }

InputUseCases ==
    { "CSV Upload Validation",
      "Donor Asset Data Validation",
      "Donation Commitment vs Actual Reconciliation",
      "Receipt Confirmation",
      "Not A Real Case" }

Quantities == {PyInt(n) : n \in 0..MaxQty}

\* ARABIC-INDIC DIGIT SEVEN, U+0667.
ArabicIndicSeven == 1632 + 7

\* The str "\f10 ": a form feed, the digits 1 and 0, a space.
FormFeedTen == PyUStr(<<12, 49, 48, 32>>)

\* The str of the one digit ARABIC-INDIC DIGIT SEVEN.
ArabicSeven == PyUStr(<<ArabicIndicSeven>>)

\* The str "abc".
Abc == PyUStr(<<97, 98, 99>>)

\* Cells int() raises on: a missing value and non-numeric text.
Unparseable == {NaN, Abc}

\* The (sent, received) cells of a row of a reconciliation use case.
ReconciliationCells ==
    (Quantities \X Quantities)
    \cup ({FormFeedTen} \X {ArabicSeven})
    \cup ({PyFloat(5, 2)} \X {PyInt(1)})
    \cup (Unparseable \X {PyInt(1)})
    \cup ({PyInt(1)} \X Unparseable)

\* The (sent, received) cells of a row of any other use case.
OtherCells == {<<PyInt(MaxQty), PyInt(0)>>, <<Abc, NaN>>}

CellsOf(use_case) ==
    IF use_case \in RECONCILIATION_CASES THEN ReconciliationCells ELSE OtherCells

Cell(cols, use_case, cells) ==
    [c \in cols |->
        CASE c = "use_case" -> use_case
          [] c = "source" -> "Donor A"
          [] c = "target" -> "Partner B"
          [] c = "sent" -> cells[1]
          [] c = "received" -> cells[2]
          [] c = "metadata" -> "batch 7"]

\* The rows a file with the columns cols can hold.
InputRows(cols) ==
    IF "use_case" \notin cols
    THEN {Cell(cols, "", cells) : cells \in OtherCells}
    ELSE IF {"sent", "received"} \subseteq cols
    THEN UNION {{Cell(cols, u, cells) : cells \in CellsOf(u)} : u \in InputUseCases}
    ELSE IF "sent" \in cols
    THEN {Cell(cols, u, <<q, PyInt(0)>>) : u \in InputUseCases, q \in Quantities}
    ELSE {Cell(cols, u, <<PyInt(0), PyInt(0)>>) : u \in InputUseCases}

RECURSIVE SeqsUpTo(_, _)
SeqsUpTo(S, n) ==
    IF n = 0 THEN {<<>>}
    ELSE LET shorter == SeqsUpTo(S, n - 1)
         IN  shorter \cup {Append(s, x) : s \in {q \in shorter : Len(q) = n - 1}, x \in S}

(* ------------------------------- actions ------------------------------- *)

NoResponse == [status |-> 0]

Init ==
    /\ pc = "idle"
    /\ columns = {}
    /\ rows = <<>>
    /\ results = <<>>
    /\ calls = <<>>
    /\ response = NoResponse

\* pd.read_csv raises: 400 "Invalid CSV format".
InvalidCsv ==
    /\ pc = "idle"
    /\ pc' = "rejected"
    /\ response' = [status |-> 400, detail |-> "Invalid CSV format"]
    /\ UNCHANGED <<columns, rows, results, calls>>

\* The file parses but has no use_case column: 400 "use_case column missing".
UseCaseColumnMissing ==
    /\ pc = "idle"
    /\ \E cols \in ColumnSets :
         /\ "use_case" \notin cols
         /\ \E df \in SeqsUpTo(InputRows(cols), 1) :
              /\ columns' = cols
              /\ rows' = df
    /\ pc' = "rejected"
    /\ response' = [status |-> 400, detail |-> "use_case column missing"]
    /\ UNCHANGED <<results, calls>>

\* The file parses into a frame with a use_case column; results = [].
Parsed ==
    /\ pc = "idle"
    /\ \E cols \in ColumnSets :
         /\ "use_case" \in cols
         /\ \E df \in SeqsUpTo(InputRows(cols), MaxRows) :
              /\ columns' = cols
              /\ rows' = df
    /\ pc' = "loop"
    /\ results' = <<>>
    /\ UNCHANGED <<calls, response>>

\* The end of one iteration, out being what the body of the loop did on
\* row i: the row is appended, or the exception leaves the handler and the
\* request fails with a server error and no result set.
EndIteration(i, out) ==
    /\ calls' = calls \o [k \in 1..Len(out.calls) |->
                            [row |-> i,
                             prompt |-> out.calls[k].prompt,
                             outcome |-> out.calls[k].outcome]]
    /\ IF out.raised
       THEN /\ pc' = "error"
            /\ response' = [status |-> 500]
            /\ UNCHANGED results
       ELSE /\ results' = Append(results, out.value)
            /\ UNCHANGED <<pc, response>>

\* One iteration of the loop over df.iterrows(), on the next row.
Iterate ==
    /\ pc = "loop"
    /\ Len(results) < Len(rows)
    /\ \E reply \in Replies :
         EndIteration(Len(results) + 1, resolve_row(rows[Len(results) + 1], reply))
    /\ UNCHANGED <<columns, rows>>

\* The loop is over: return {"total": len(results), "results": results}.
Return ==
    /\ pc = "loop"
    /\ Len(results) = Len(rows)
    /\ pc' = "done"
    /\ response' = [status |-> 200, total |-> Len(results), results |-> results]
    /\ UNCHANGED <<columns, rows, results, calls>>

Next == InvalidCsv \/ UseCaseColumnMissing \/ Parsed \/ Iterate \/ Return

Spec == Init /\ [][Next]_vars

(* ------------------------------- claims -------------------------------- *)

\* The rows the loop has resolved so far.
Resolved == 1..Len(results)

UseCaseOf(i) == rows[i]["use_case"]

\* The number of requests sent to the generator for row i.
CallsFor(i) == Cardinality({k \in 1..Len(calls) : calls[k].row = i})

\* The integer a sent or received cell stands for, an absent column and a
\* cell that is no integer taken as 0.
QuantityOrZero(row, key) ==
    IF key \notin DOMAIN row THEN 0
    ELSE IF row[key].t = "int" THEN row[key].v
    ELSE IF int(row[key]).ok THEN int(row[key]).v
    ELSE 0

HasUnparseableCell(row) ==
    \E key \in {"sent", "received"} : key \in DOMAIN row /\ ~int(row[key]).ok

ResolvedFields ==
    {"use_case", "source", "target", "sent", "received", "difference",
     "status", "severity", "metadata", "solution"}

\* C1: once a file with a use_case column has been parsed, the request ends
\* with a result set whose total is the length of results and the number of
\* input rows, and results[i].use_case is the use_case of input row i: no
\* row is dropped, duplicated or reordered.
C1_EveryRowYieldsOneResolvedRow ==
    pc \in {"done", "error"} =>
        /\ response.status = 200
        /\ response.total = Len(response.results)
        /\ response.total = Len(rows)
        /\ \A i \in 1..Len(rows) : response.results[i].use_case = UseCaseOf(i)

\* The integer that a sent or received cell of the inputs stands for, as
\* Python reads it: an int is itself, a float is truncated toward zero,
\* "\f10 " is 10 and the Arabic-Indic digit seven is 7.
StandsFor(cell, n) ==
    CASE cell.t = "int" -> n = cell.v
      [] cell.t = "float" /\ cell.num >= 0 ->
            n >= 0 /\ n * cell.den <= cell.num /\ cell.num < (n + 1) * cell.den
      [] cell.t = "float" /\ cell.num < 0 ->
            n <= 0 /\ n * cell.den >= cell.num /\ cell.num > (n - 1) * cell.den
      [] cell = FormFeedTen -> n = 10
      [] cell = ArabicSeven -> n = 7
      [] OTHER -> FALSE

\* The quantity of a resolved row is what its cell stands for, or 0 when
\* the row has no such column.
QuantityRead(row, key, n) ==
    IF key \in DOMAIN row THEN StandsFor(row[key], n) ELSE n = 0

\* C2: a resolved row of a reconciliation use case has sent and received
\* equal to the integers of its cells (an absent sent or received taken as
\* 0), difference = sent - received, status MATCH iff the difference is 0
\* and MISMATCH otherwise, severity NONE iff the status is MATCH and HIGH
\* otherwise.
C2_ReconciliationRule ==
    \A i \in Resolved :
        UseCaseOf(i) \in RECONCILIATION_CASES =>
            LET r == results[i]
            IN  /\ QuantityRead(rows[i], "sent", r.sent)
                /\ QuantityRead(rows[i], "received", r.received)
                /\ r.difference = r.sent - r.received
                /\ r.status \in {"MATCH", "MISMATCH"}
                /\ r.status = "MATCH" <=> r.difference = 0
                /\ r.severity \in {"NONE", "HIGH"}
                /\ r.severity = "NONE" <=> r.status = "MATCH"

\* A batch returned with a reconciliation row whose sent and received are
\* read from two str cells and differ, and one whose quantities are equal.
C2_Witness ==
    /\ pc = "done"
    /\ \E i \in Resolved :
         /\ UseCaseOf(i) \in RECONCILIATION_CASES
         /\ {"sent", "received"} \subseteq DOMAIN rows[i]
         /\ rows[i]["sent"] = FormFeedTen
         /\ rows[i]["received"] = ArabicSeven
         /\ results[i].difference = 3
         /\ results[i].status = "MISMATCH"
         /\ results[i].severity = "HIGH"
    /\ \E i \in Resolved :
         /\ UseCaseOf(i) \in RECONCILIATION_CASES
         /\ results[i].status = "MATCH"

\* A batch of a file with no received column returned with a mismatching
\* reconciliation row: the absent received is 0.
C2_AbsentColumn ==
    /\ pc = "done"
    /\ "received" \notin columns
    /\ \E i \in Resolved :
         /\ UseCaseOf(i) \in RECONCILIATION_CASES
         /\ results[i].sent = MaxQty
         /\ results[i].received = 0
         /\ results[i].status = "MISMATCH"

\* C3: a row whose use_case is not in the registry is resolved, whatever
\* its other cells hold, with status INVALID_USE_CASE, severity HIGH and the
\* solution "Rejected: use_case not recognized.", as a row of the result set:
\* it never makes the request fail.
C3_UnrecognizedRowRejected ==
    /\ \A i \in Resolved :
          UseCaseOf(i) \notin USE_CASES =>
              /\ results[i].status = "INVALID_USE_CASE"
              /\ results[i].severity = "HIGH"
              /\ results[i].solution = PyStr("Rejected: use_case not recognized.")
    /\ pc = "error" => UseCaseOf(Len(results) + 1) \in USE_CASES
    /\ pc = "done" =>
          /\ response.status = 200
          /\ \A i \in 1..Len(rows) :
                UseCaseOf(i) \notin USE_CASES =>
                    response.results[i].status = "INVALID_USE_CASE"

\* A batch returned with a rejected row whose sent cell is no integer.
C3_Witness ==
    /\ pc = "done"
    /\ \E i \in Resolved :
         /\ UseCaseOf(i) \notin USE_CASES
         /\ HasUnparseableCell(rows[i])
         /\ results[i].status = "INVALID_USE_CASE"

\* C4: a sent or received cell of a reconciliation row that is no integer is
\* taken as 0 and the row is classified: the failure to parse it is never
\* raised and aborts neither the row nor the batch.
C4_UnparseableQuantityIsZero ==
    /\ pc # "error"
    /\ \A i \in Resolved :
          UseCaseOf(i) \in RECONCILIATION_CASES =>
              /\ results[i].sent = QuantityOrZero(rows[i], "sent")
              /\ results[i].received = QuantityOrZero(rows[i], "received")

\* C5: a failed call of the generator never leaves run_use_cases: the row
\* of the call is in results at its input position with a solution string,
\* and the request does not fail at that row.
C5_GeneratorFailureContained ==
    \A k \in 1..Len(calls) :
        calls[k].outcome = "raise" =>
            /\ calls[k].row \in Resolved
            /\ results[calls[k].row].use_case = UseCaseOf(calls[k].row)
            /\ results[calls[k].row].solution.t = "str"
            /\ pc = "done" => response.status = 200

\* A batch returned after a call of the generator failed.
C5_Witness ==
    /\ pc = "done"
    /\ response.status = 200
    /\ \E k \in 1..Len(calls) : calls[k].outcome = "raise"

\* C6 as stated: when every call of the generator fails, the solution of a
\* recognized row other than CSV Upload Validation is "Narrative generation
\* unavailable. Suggested action: " followed by the registered text of its
\* use case.
C6_FallbackAsStated ==
    (\A k \in 1..Len(calls) : calls[k].outcome = "raise") =>
        \A i \in Resolved :
            UseCaseOf(i) \in USE_CASES \ {"CSV Upload Validation"} =>
                results[i].solution =
                    PyStr("Narrative generation unavailable. Suggested action: "
                          \o USE_CASE_SOLUTIONS[UseCaseOf(i)])

\* C6 amended: when every call of the generator fails, the solution of a
\* recognized row other than CSV Upload Validation is "LLM unavailable due
\* to quota or rate limits. Suggested action: " followed by the registered
\* text of its use case, which every recognized use case has.
C6_FallbackText ==
    /\ DOMAIN USE_CASE_SOLUTIONS = USE_CASES
    /\ (\A k \in 1..Len(calls) : calls[k].outcome = "raise") =>
          \A i \in Resolved :
              UseCaseOf(i) \in USE_CASES \ {"CSV Upload Validation"} =>
                  results[i].solution =
                      PyStr("LLM unavailable due to quota or rate limits. Suggested action: "
                            \o USE_CASE_SOLUTIONS[UseCaseOf(i)])

\* A batch returned in which every call failed, with a reconciliation row
\* and a row of another use case.
C6_Witness ==
    /\ pc = "done"
    /\ Len(calls) = 2
    /\ \A k \in 1..Len(calls) : calls[k].outcome = "raise"
    /\ \E i \in Resolved : UseCaseOf(i) \in RECONCILIATION_CASES
    /\ \E i \in Resolved : UseCaseOf(i) \in USE_CASES \ RECONCILIATION_CASES

\* C7: the generator is called zero times for a row with status
\* INVALID_USE_CASE and for a CSV Upload Validation row (whose solution is
\* the registered text), once for every other resolved row, failed or not,
\* and the calls are made one at a time in the order of the rows: no call
\* for a row that is not yet resolved.
C7_OneCallPerNarratedRow ==
    /\ \A i \in Resolved :
          IF results[i].status = "INVALID_USE_CASE"
          THEN CallsFor(i) = 0
          ELSE IF results[i].use_case = "CSV Upload Validation"
          THEN /\ CallsFor(i) = 0
               /\ results[i].solution = PyStr(USE_CASE_SOLUTIONS["CSV Upload Validation"])
          ELSE CallsFor(i) = 1
    /\ \A k \in 1..Len(calls) : calls[k].row \in Resolved
    /\ \A k \in 1..Len(calls) - 1 : calls[k].row < calls[k + 1].row

\* A batch returned with a CSV Upload Validation row and a row whose call
\* failed.
C7_Witness ==
    /\ pc = "done"
    /\ \E i \in Resolved : results[i].use_case = "CSV Upload Validation"
    /\ \E k \in 1..Len(calls) : calls[k].outcome = "raise"

\* C8: a resolved row of a registered use case that is not reconciled has
\* sent = received = difference = 0 and severity MEDIUM whatever its sent
\* and received cells hold, with status VALIDATION_REQUIRED exactly for the
\* validation use cases and PROCESS_EVENT exactly for the use cases that
\* are in neither category.
C8_UnreconciledRule ==
    \A i \in Resolved :
        UseCaseOf(i) \in USE_CASES \ RECONCILIATION_CASES =>
            LET r == results[i]
            IN  /\ r.sent = 0 /\ r.received = 0 /\ r.difference = 0
                /\ r.severity = "MEDIUM"
                /\ r.status \in {"VALIDATION_REQUIRED", "PROCESS_EVENT"}
                /\ r.status = "VALIDATION_REQUIRED" <=> UseCaseOf(i) \in VALIDATION_CASES
                /\ r.status = "PROCESS_EVENT" <=> UseCaseOf(i) \in PROCESS_CASES

\* A batch returned with a validation row and a process row whose sent and
\* received cells are no integers.
C8_Witness ==
    /\ pc = "done"
    /\ \E i \in Resolved :
         /\ UseCaseOf(i) \in VALIDATION_CASES
         /\ HasUnparseableCell(rows[i])
    /\ \E i \in Resolved :
         /\ UseCaseOf(i) \in PROCESS_CASES
         /\ HasUnparseableCell(rows[i])

\* C9: every resolved row, a rejected one included, carries the ten fields
\* of a resolved row; a rejected row has sent = received = difference = 0;
\* source, target and metadata are the input cells, or "" when absent.
C9_TenFieldsOnEveryRow ==
    \A i \in Resolved :
        /\ DOMAIN results[i] = ResolvedFields
        /\ results[i].status = "INVALID_USE_CASE" =>
              /\ results[i].sent = 0
              /\ results[i].received = 0
              /\ results[i].difference = 0
        /\ \A f \in {"source", "target", "metadata"} :
              results[i][f] = Get(rows[i], f, "")

\* C10: the solution of every resolved row is a non-empty string, whatever
\* the generator does.
C10_SolutionNonEmpty ==
    \A i \in Resolved :
        /\ results[i].solution.t = "str"
        /\ results[i].solution.s # ""

====
